---------------------------- MODULE Spec2Model ----------------------------
(***************************************************************************)
(* A model of ha-backfill (src/backfill.go): the directory walk, the CSV   *)
(* reader, the per-series accumulator (stat.addValue) and the SQL          *)
(* generator (stat.generateSQL).                                           *)
(*                                                                         *)
(* Numbers.  strconv.ParseFloat returns a float64 and addValue narrows it  *)
(* to float32 before it is compared, subtracted and summed.  Both formats  *)
(* are modelled bit-exactly on integers:                                   *)
(*   float64  [cls, sign, hi, lo, e]  = sign * (hi * 2^27 + lo) * 2^e      *)
(*   float32  [cls, sign, m, e]       = sign * m * 2^e                     *)
(* with cls one of "fin", "inf", "nan".  The sign of a zero is dropped     *)
(* (no comparison or sum in the program can tell -0 from +0).              *)
(*                                                                         *)
(* Time.  An instant is a number of seconds since the Unix epoch (UTC).    *)
(***************************************************************************)
EXTENDS Integers, Sequences, FiniteSets, TLC

VARIABLES
    tz,         \* offset of time.Local east of UTC, in seconds
    shortTerm,  \* flag -shortterm (days)
    keys,       \* flags -import-key, -export-key, -gen-key
    tree,       \* the regular files under -dir (paths)
    walkErr,    \* how filepath.Walk ends: "none", "root" or "entry"
    files,      \* main's files, as getFileNames returned them
    fi,         \* number of files main's loop has handled
    opened,     \* the paths os.Open was called on, in order
    cur,        \* what readCSV found in the file it handled last
    seen,       \* the timestamps readCSV parsed (tm, line 181), in order
    imp, exp, gen,  \* the three stat values of main
    clock,      \* time.Now() of each generateSQL call made so far
    out,        \* the statements printed to standard output, in order
    pc,         \* main's position
    st,         \* a stat driven directly through addValue (SpecAdd)
    call        \* the argument of the last addValue call on st

vars == <<tz, shortTerm, keys, tree, walkErr, files, fi, opened, cur, seen,
          imp, exp, gen, clock, out, pc, st, call>>

-----------------------------------------------------------------------------
(* Bounds of the model *)

\* data rows per file
MaxRows == 2
\* addValue calls made on st
MaxCalls == 4

-----------------------------------------------------------------------------
(* IEEE-754 binary32 arithmetic, round to nearest even *)

Pow2(n) == 2 ^ n

Abs(x) == IF x < 0 THEN -x ELSE x

\* number of bits of a natural number below 2^31
BitLen(n) == IF n = 0 THEN 0 ELSE CHOOSE k \in 1..31 : Pow2(k - 1) <= n /\ n < Pow2(k)

F32NaN == [cls |-> "nan", sign |-> 1, m |-> 0, e |-> 0]
F32Inf(s) == [cls |-> "inf", sign |-> s, m |-> 0, e |-> 0]
F32Zero == [cls |-> "fin", sign |-> 1, m |-> 0, e |-> -149]
F32Fin(s, m, e) == [cls |-> "fin", sign |-> s, m |-> m, e |-> e]

\* a rounded significand m at exponent e, renormalised; past the largest
\* finite binary32 the result is an infinity
F32Pack(s, m, e) ==
    LET m2 == IF m = Pow2(24) THEN Pow2(23) ELSE m
        e2 == IF m = Pow2(24) THEN e + 1 ELSE e
    IN  IF m2 = 0 THEN F32Zero
        ELSE IF e2 > 104 THEN F32Inf(s)
        ELSE F32Fin(s, m2, e2)

\* q rounded up when the discarded part is above half, or is half and q is odd
RoundEven(q, above, half) ==
    IF above \/ (half /\ q % 2 = 1) THEN q + 1 ELSE q

\* the binary32 nearest to s * M * 2^E, for 0 <= M < 2^30 and E >= -160
F32Round(s, M, E) ==
    IF M = 0 THEN F32Zero
    ELSE LET e2 == IF E + BitLen(M) - 24 > -149 THEN E + BitLen(M) - 24 ELSE -149
             sh == e2 - E
         IN  IF sh <= 0 THEN F32Pack(s, M * Pow2(-sh), e2)
             ELSE LET q == M \div Pow2(sh)
                      r == M % Pow2(sh)
                      h == Pow2(sh - 1)
                  IN  F32Pack(s, RoundEven(q, r > h, r = h), e2)

\* float32(f) for a float64 f
Float32(f) ==
    IF f.cls = "nan" THEN F32NaN
    ELSE IF f.cls = "inf" THEN F32Inf(f.sign)
    ELSE IF f.hi = 0 /\ f.lo = 0 THEN F32Zero
    ELSE LET e2 == IF f.e + 29 > -149 THEN f.e + 29 ELSE -149
             k  == e2 - f.e - 27
         IN  IF k >= 27 THEN F32Zero
             ELSE LET q  == f.hi \div Pow2(k)
                      rh == f.hi % Pow2(k)
                      h  == Pow2(k - 1)
                  IN  F32Pack(f.sign,
                              RoundEven(q, rh > h \/ (rh = h /\ f.lo > 0),
                                        rh = h /\ f.lo = 0),
                              e2)

\* |a| < |b| for finite a, b: significands are normalised (or the exponent is
\* the least one), so magnitudes order as the pairs (e, m)
F32MagLess(a, b) == a.e < b.e \/ (a.e = b.e /\ a.m < b.m)

\* a < b on float32 (false when either is a NaN)
F32Less(a, b) ==
    IF a.cls = "nan" \/ b.cls = "nan" THEN FALSE
    ELSE IF a.cls = "inf" THEN a.sign = -1 /\ ~(b.cls = "inf" /\ b.sign = -1)
    ELSE IF b.cls = "inf" THEN b.sign = 1
    ELSE IF a.sign # b.sign THEN a.sign = -1
    ELSE IF a.sign = 1 THEN F32MagLess(a, b) ELSE F32MagLess(b, a)

F32Neg(a) == IF a.cls = "nan" THEN a ELSE IF a.cls = "fin" /\ a.m = 0 THEN a
             ELSE [a EXCEPT !.sign = -a.sign]

\* x + y for finite x, y with x.e >= y.e: three guard bits and a sticky bit
F32AddFin(x, y) ==
    LET d  == x.e - y.e
        X  == x.m * 8
        sh == d - 3
        Y  == IF d <= 3 THEN y.m * Pow2(3 - d)
              ELSE IF sh >= 25 THEN (IF y.m # 0 THEN 1 ELSE 0)
              ELSE LET q == y.m \div Pow2(sh)
                   IN  IF y.m % Pow2(sh) # 0 /\ q % 2 = 0 THEN q + 1 ELSE q
        S  == x.sign * X + y.sign * Y
    IN  F32Round(IF S < 0 THEN -1 ELSE 1, Abs(S), x.e - 3)

\* a + b on float32
F32Add(a, b) ==
    IF a.cls = "nan" \/ b.cls = "nan" THEN F32NaN
    ELSE IF a.cls = "inf" /\ b.cls = "inf"
         THEN (IF a.sign = b.sign THEN a ELSE F32NaN)
    ELSE IF a.cls = "inf" THEN a
    ELSE IF b.cls = "inf" THEN b
    ELSE IF a.e >= b.e THEN F32AddFin(a, b) ELSE F32AddFin(b, a)

\* a - b on float32
F32Sub(a, b) == F32Add(a, F32Neg(b))

-----------------------------------------------------------------------------
(* strconv.ParseFloat(str, 64), on the strings the model feeds it *)

F64Fin(s, hi, lo, e) == [cls |-> "fin", sign |-> s, hi |-> hi, lo |-> lo, e |-> e]
F64Zero == F64Fin(1, 0, 0, 0)
F64Inf == [cls |-> "inf", sign |-> 1, hi |-> 0, lo |-> 0, e |-> 0]
F64NaN == [cls |-> "nan", sign |-> 1, hi |-> 0, lo |-> 0, e |-> 0]

\* the float64 nearest to the decimal, and whether err is non-nil; a string
\* that is no number is a syntax error, "1e400" is out of range (f = +Inf)
ParseFloat(str) ==
    CASE str = "0"     -> [err |-> FALSE, f |-> F64Zero]
      [] str = "0.1"   -> [err |-> FALSE, f |-> F64Fin(1, 53687091, 26843546, -56)]
      [] str = "0.2"   -> [err |-> FALSE, f |-> F64Fin(1, 53687091, 26843546, -55)]
      [] str = "0.7"   -> [err |-> FALSE, f |-> F64Fin(1, 46976204, 107374182, -53)]
      [] str = "3.0"   -> [err |-> FALSE, f |-> F64Fin(1, 50331648, 0, -51)]
      [] str = "3.4"   -> [err |-> FALSE, f |-> F64Fin(1, 57042534, 53687091, -51)]
      [] str = "10.0"  -> [err |-> FALSE, f |-> F64Fin(1, 41943040, 0, -49)]
      [] str = "10.5"  -> [err |-> FALSE, f |-> F64Fin(1, 44040192, 0, -49)]
      [] str = "1e-50" -> [err |-> FALSE, f |-> F64Fin(1, 62771017, 47495199, -219)]
      [] str = "1e39"  -> [err |-> FALSE, f |-> F64Fin(1, 49303806, 77351453, 77)]
      [] str = "NaN"   -> [err |-> FALSE, f |-> F64NaN]
      [] str = "1e400" -> [err |-> TRUE, f |-> F64Inf]
      [] OTHER         -> [err |-> TRUE, f |-> F64Zero]

\* f != 0 on float64
F64NonZero(f) == f.cls # "fin" \/ f.hi # 0 \/ f.lo # 0

-----------------------------------------------------------------------------
(* stat and sample *)

sample(tm, sum, value) == [t |-> tm, sum |-> sum, value |-> value]

\* the zero value of stat (var imp, exp, gen stat)
stat0 == [last |-> F32Zero, total |-> F32Zero, values |-> <<>>]

\* the base the delta is taken from: the new value when the series is empty or
\* the value has gone backwards
resetBase(s, val) ==
    IF Len(s.values) = 0 \/ F32Less(val, s.last) THEN val ELSE s.last

\* the condition under which addValue records the value
accepted(r) == ~r.err /\ F64NonZero(r.f)

\* stat.addValue: the stat after the call
addValue(s, str, tm) ==
    LET r   == ParseFloat(str)
        val == Float32(r.f)
    IN  IF accepted(r)
        THEN LET total == F32Add(s.total, F32Sub(val, resetBase(s, val)))
             IN  [last   |-> val,
                  total  |-> total,
                  values |-> Append(s.values, sample(tm, total, val))]
        ELSE s

-----------------------------------------------------------------------------
(* time.ParseInLocation(tFmt, date + " " + time, time.Local) *)

\* days from the epoch to the date, or -1 when the text is no date
DateDays(d) ==
    CASE d = "2022-04-01" -> 19083
      [] d = "2022-04-02" -> 19084
      [] OTHER -> -1

\* seconds from midnight to the clock time, or -1 when the text is no time
ClockSecs(c) ==
    CASE c = "13:00" -> 13 * 3600
      [] c = "13:30" -> 13 * 3600 + 30 * 60
      [] OTHER -> -1

\* the instant the local date and time denote
ParseInLocation(d, c) ==
    IF DateDays(d) < 0 \/ ClockSecs(c) < 0
    THEN [err |-> TRUE, t |-> 0]
    ELSE [err |-> FALSE, t |-> DateDays(d) * 24 * 3600 + ClockSecs(c) - tz]

\* utc.Minute()
Minute(t) == (t \div 60) % 60

-----------------------------------------------------------------------------
(* readCSV *)

\* a file on disk: whether os.Open succeeds, whether its text is well-formed
\* CSV, and its records
File(open, csv, rows) == [open |-> open, csv |-> csv, rows |-> rows]

\* csv.NewReader(f).ReadAll(): FieldsPerRecord is 0, so the reader takes the
\* field count of the first record and reports ErrFieldCount for any later
\* record of another length; on any error no records are returned
ReadAll(file) ==
    IF ~file.csv \/ \E i \in 1..Len(file.rows) : Len(file.rows[i]) # Len(file.rows[1])
    THEN [err |-> TRUE, r |-> <<>>]
    ELSE [err |-> FALSE, r |-> file.rows]

\* the index (from 0) the header switch leaves for a label: the last column
\* carrying it, or -1
column(hdr, label) ==
    IF \E i \in 1..Len(hdr) : hdr[i] = label
    THEN (CHOOSE i \in 1..Len(hdr) :
              hdr[i] = label /\ \A j \in (i + 1)..Len(hdr) : hdr[j] # label) - 1
    ELSE -1

\* one record of the loop (lines 173-195) applied to acc
readRow(hdr, data, acc) ==
    IF Len(data) # Len(hdr) THEN acc
    ELSE LET tm == ParseInLocation(data[column(hdr, "#date") + 1],
                                   data[column(hdr, "time") + 1])
             ic == column(hdr, "IMP")
             ec == column(hdr, "EXP")
             gc == column(hdr, "GEN-T")
         IN  IF tm.err THEN acc
             ELSE [imp |-> IF ic # -1 THEN addValue(acc.imp, data[ic + 1], tm.t)
                           ELSE acc.imp,
                   exp |-> IF ec # -1 THEN addValue(acc.exp, data[ec + 1], tm.t)
                           ELSE acc.exp,
                   gen |-> IF gc # -1 THEN addValue(acc.gen, data[gc + 1], tm.t)
                           ELSE acc.gen,
                   tms |-> Append(acc.tms, tm.t)]

RECURSIVE readRows(_, _, _)
\* records k.. of r, in order, applied to acc
readRows(r, k, acc) ==
    IF k > Len(r) THEN acc
    ELSE readRows(r, k + 1, readRow(r[1], r[k], acc))

\* readCSV: the error returned, the three stats after the call, and the
\* timestamps of the records that reached addValue
readCSV(file, i, e, g) ==
    LET acc == [imp |-> i, exp |-> e, gen |-> g, tms |-> <<>>]
        ra  == ReadAll(file)
    IN  IF ~file.open \/ ra.err THEN [err |-> TRUE, acc |-> acc]
        ELSE IF Len(ra.r) < 2 THEN [err |-> FALSE, acc |-> acc]
        ELSE IF column(ra.r[1], "#date") = -1 \/ column(ra.r[1], "time") = -1
             THEN [err |-> FALSE, acc |-> acc]
        ELSE [err |-> FALSE, acc |-> readRows(ra.r, 2, acc)]

-----------------------------------------------------------------------------
(* getFileNames *)

\* paths are byte strings, relative to the base directory: "a.b" and "a/b"
\* (46 is '.', 47 is '/')
Paths == { <<97, 46, 98>>, <<97, 47, 98>> }

\* p < q as Go compares strings (byte by byte)
StrLess(p, q) ==
    \E i \in 1..Len(q) :
        /\ i <= Len(p) + 1
        /\ \A j \in 1..(i - 1) : p[j] = q[j]
        /\ i = Len(p) + 1 \/ p[i] < q[i]

\* the path with every separator replaced by a byte below all others
components(p) == [i \in 1..Len(p) |-> IF p[i] = 47 THEN 0 ELSE p[i]]

\* filepath.Walk reaches p before q: directories are read in lexical order of
\* their entries' names and a directory comes before what it holds
WalkLess(p, q) == StrLess(components(p), components(q))

\* the directories of the tree: the root and every directory holding a file
Dirs(t) ==
    {<<>>} \cup
    UNION { { SubSeq(p, 1, k - 1) : k \in { j \in 1..Len(p) : p[j] = 47 } } : p \in t }

\* what Walk visits: every directory and every regular file
Entries(t) == { [path |-> p, regular |-> TRUE] : p \in t } \cup
              { [path |-> p, regular |-> FALSE] : p \in Dirs(t) }

RECURSIVE Walk(_)
\* the entries in the order Walk hands them to the callback
Walk(E) ==
    IF E = {} THEN <<>>
    ELSE LET x == CHOOSE x \in E : \A y \in E \ {x} : WalkLess(x.path, y.path)
         IN  <<x>> \o Walk(E \ {x})

RECURSIVE SortStrings(_)
\* sort.Strings on the paths S
SortStrings(S) ==
    IF S = {} THEN <<>>
    ELSE LET x == CHOOSE x \in S : \A y \in S \ {x} : StrLess(x, y)
         IN  <<x>> \o SortStrings(S \ {x})

\* getFileNames without sort.Strings: the files in the order Walk met them
getFileNamesUnsorted(t, werr, n) ==
    LET w == SelectSeq(SubSeq(Walk(Entries(t)), 1, n), LAMBDA x : x.regular)
    IN  [files |-> [i \in 1..Len(w) |-> w[i].path], err |-> werr = "err"]

\* getFileNames: Walk stops at entry n + 1 when the callback returns its error
\* there (n is the number of entries when there is none); the regular files
\* reached are returned sorted
getFileNames(t, werr, n) ==
    LET w == Walk(Entries(t))
    IN  [files |-> SortStrings({ w[i].path : i \in { j \in 1..n : w[j].regular } }),
         err   |-> werr = "err"]

-----------------------------------------------------------------------------
(* generateSQL *)

Delete(table, key) == [op |-> "DELETE", table |-> table, key |-> key]

\* sample.insert: created is tm + 10 s, start is tm + offset; both are printed
\* to the second, state and sum with %f
insert(v, table, tm, offset, key) ==
    [op |-> "INSERT", table |-> table, created |-> tm + 10, start |-> tm + offset,
     state |-> v.value, sum |-> v.sum, key |-> key]

\* inserts without the test of utc.Minute()
insertsAnyMinute(v, key, short_term) ==
    <<insert(v, "statistics", v.t, -60 * 60, key)>>
    \o
    (IF v.t > short_term
     THEN <<insert(v, "statistics_short_term", v.t, -5 * 60, key)>> ELSE <<>>)

\* the statements printed for one sample (the body of the loop, lines 223-229)
inserts(v, key, short_term) ==
    (IF Minute(v.t) = 0
     THEN <<insert(v, "statistics", v.t, -60 * 60, key)>> ELSE <<>>)
    \o
    (IF v.t > short_term
     THEN <<insert(v, "statistics_short_term", v.t, -5 * 60, key)>> ELSE <<>>)

RECURSIVE insertAll(_, _, _, _)
\* the loop over s.values from index k
insertAll(values, k, key, short_term) ==
    IF k > Len(values) THEN <<>>
    ELSE inserts(values[k], key, short_term) \o insertAll(values, k + 1, key, short_term)

\* generateSQL printing the deletions after the insertions
generateSQLDeletesLast(s, key, short_term) ==
    insertAll(s.values, 1, key, short_term)
    \o <<Delete("statistics", key), Delete("statistics_short_term", key)>>

\* stat.generateSQL: the statements printed, in order
generateSQL(s, key, short_term) ==
    <<Delete("statistics", key), Delete("statistics_short_term", key)>>
    \o insertAll(s.values, 1, key, short_term)

-----------------------------------------------------------------------------
(* The inputs of a run *)

\* time.Local: UTC+10:00 and UTC+05:30
TZOffsets == { 10 * 3600, 5 * 3600 + 30 * 60 }

\* -shortterm
ShortTermDays == { 14 }

\* -import-key, -export-key, -gen-key: the defaults, and one key given twice
KeyConfigs == { [imp |-> "14", exp |-> "13", gen |-> "15"],
                [imp |-> "14", exp |-> "14", gen |-> "15"] }

\* time.Now(): 2022-04-15 03:15 and 03:30 UTC
NowSet == { 19097 * 24 * 3600 + 3 * 3600 + 15 * 60,
            19097 * 24 * 3600 + 3 * 3600 + 30 * 60 }

Headers == { <<"#date", "time", "IMP", "EXP", "GEN-T">>,
             <<"date", "time", "IMP", "EXP", "GEN-T">>,
             <<"#date", "time", "IMP", "EXP", "T">> }

DataRows == { <<"2022-04-01", "13:00", "10.0", "3.0", "0">>,
              <<"2022-04-01", "13:30", "10.5", "abc", "3.4">>,
              <<"2022-04-01", "bad", "3.0", "3.0", "3.0">>,
              <<"2022-04-01", "13:30">> }

\* sequences over S of length n
SeqsOf(S, n) == [1..n -> S]

\* what a file under the base directory can be
FileContents ==
    { File(FALSE, TRUE, <<>>), File(TRUE, FALSE, <<>>), File(TRUE, TRUE, <<>>) }
    \cup { File(TRUE, TRUE, <<h>> \o d) :
               h \in Headers, d \in UNION { SeqsOf(DataRows, n) : n \in 0..MaxRows } }

\* the strings SpecAdd hands to addValue
AddStrings == { "abc", "0", "1e-50", "1e39", "NaN", "1e400",
                "0.1", "0.2", "0.7", "3.0", "3.4", "10.0", "10.5" }

noFile == [path |-> <<>>, file |-> File(FALSE, FALSE, <<>>), err |-> FALSE]
noCall == [n |-> 0, str |-> "", tm |-> 0]

-----------------------------------------------------------------------------
(* main *)

Init ==
    /\ tz \in TZOffsets
    /\ shortTerm \in ShortTermDays
    /\ keys \in KeyConfigs
    /\ tree \in SUBSET Paths
    /\ walkErr \in { "none", "err", "nilinfo" }
    /\ files = <<>>
    /\ fi = 0
    /\ opened = <<>>
    /\ cur = noFile
    /\ seen = <<>>
    /\ imp = stat0 /\ exp = stat0 /\ gen = stat0
    /\ clock = <<>>
    /\ out = <<>>
    /\ pc = "getFileNames"
    /\ st = stat0
    /\ call = noCall

\* main going on after an error of getFileNames
afterWalkIgnoringErr(r) == IF Len(r.files) = 0 THEN "genImp" ELSE "readCSV"

\* main after getFileNames returned r (lines 90-95, 102)
afterWalk(r) ==
    IF r.err THEN "fatal"
    ELSE IF Len(r.files) = 0 THEN "genImp" ELSE "readCSV"

\* the loop left at the first file readCSV fails on
afterFileStopOnErr(err, k, n) == IF err \/ k = n THEN "genImp" ELSE "readCSV"

\* main after the k-th of n files was handled: an error of readCSV is logged
\* and the loop goes on
afterFile(err, k, n) == IF k = n THEN "genImp" ELSE "readCSV"

\* where Walk can stop: after every entry when nothing fails; otherwise at a
\* directory it cannot read, whose error the callback returns
walkStops(t, werr) ==
    LET w == Walk(Entries(t))
    IN  IF werr = "none" THEN { Len(w) }
        ELSE { n \in 0..(Len(w) - 1) : ~w[n + 1].regular }

\* lines 89-92.  The callback calls info.Mode() before it looks at err: when
\* Walk hands it a nil info (Lstat failed) the program panics
GetFileNames ==
    /\ pc = "getFileNames"
    /\ IF walkErr = "nilinfo"
       THEN pc' = "panic" /\ files' = files
       ELSE \E n \in walkStops(tree, walkErr) :
               \E r \in { getFileNames(tree, walkErr, n) } :
                   files' = r.files /\ pc' = afterWalk(r)
    /\ UNCHANGED <<tz, shortTerm, keys, tree, walkErr, fi, opened, cur, seen,
                   imp, exp, gen, clock, out, st, call>>

\* one iteration of the loop of lines 95-101: readCSV on the next file, whose
\* content is whatever is on disk at that moment
ReadCSV ==
    /\ pc = "readCSV"
    /\ fi < Len(files)
    /\ \E c \in FileContents : \E r \in { readCSV(c, imp, exp, gen) } :
              /\ imp' = r.acc.imp /\ exp' = r.acc.exp /\ gen' = r.acc.gen
              /\ cur' = [path |-> files[fi + 1], file |-> c, err |-> r.err]
              /\ seen' = Append(seen, [path |-> files[fi + 1], tms |-> r.acc.tms])
              /\ pc' = afterFile(r.err, fi + 1, Len(files))
    /\ opened' = Append(opened, files[fi + 1])
    /\ fi' = fi + 1
    /\ UNCHANGED <<tz, shortTerm, keys, tree, walkErr, files, clock, out, st, call>>

\* one of the three calls of lines 102-104, at wall-clock time now
GenerateSQL ==
    /\ pc \in { "genImp", "genExp", "genGen" }
    /\ \E now \in NowSet :
          LET short_term == now - 24 * 3600 * shortTerm
              s   == CASE pc = "genImp" -> imp [] pc = "genExp" -> exp [] OTHER -> gen
              key == CASE pc = "genImp" -> keys.imp [] pc = "genExp" -> keys.exp
                       [] OTHER -> keys.gen
          IN  /\ out' = out \o generateSQL(s, key, short_term)
              /\ clock' = Append(clock, now)
    /\ pc' = CASE pc = "genImp" -> "genExp" [] pc = "genExp" -> "genGen" [] OTHER -> "done"
    /\ cur' = noFile
    /\ UNCHANGED <<tz, shortTerm, keys, tree, walkErr, files, fi, opened, seen,
                   imp, exp, gen, st, call>>

Next == GetFileNames \/ ReadCSV \/ GenerateSQL

Spec == Init /\ [][Next]_vars

-----------------------------------------------------------------------------
(* addValue on its own: any strings, in any order, on one stat *)

InitAdd ==
    /\ tz = 0
    /\ shortTerm = 14
    /\ keys = [imp |-> "14", exp |-> "13", gen |-> "15"]
    /\ tree = {}
    /\ walkErr = "none"
    /\ files = <<>>
    /\ fi = 0
    /\ opened = <<>>
    /\ cur = noFile
    /\ seen = <<>>
    /\ imp = stat0 /\ exp = stat0 /\ gen = stat0
    /\ clock = <<>>
    /\ out = <<>>
    /\ pc = "addValue"
    /\ st = stat0
    /\ call = noCall

AddValue ==
    /\ pc = "addValue"
    /\ call.n < MaxCalls
    /\ \E str \in AddStrings :
          /\ st' = addValue(st, str, call.n)
          /\ call' = [n |-> call.n + 1, str |-> str, tm |-> call.n]
    /\ UNCHANGED <<tz, shortTerm, keys, tree, walkErr, files, fi, opened, cur, seen,
                   imp, exp, gen, clock, out, pc>>

NextAdd == AddValue

SpecAdd == InitAdd /\ [][NextAdd]_vars
-----------------------------------------------------------------------------
(* Comparisons used to state the properties *)

\* a == b on float32 (false when either is a NaN)
F32Eq(a, b) == a.cls # "nan" /\ b.cls # "nan" /\ a = b

\* a <= b on float32
F32Leq(a, b) == F32Less(a, b) \/ F32Eq(a, b)

\* the value addValue stores for the string
ValueOf(str) == Float32(ParseFloat(str).f)

-----------------------------------------------------------------------------
(* C1 *)

\* C1: the cumulative sums of a series never decrease: each sample's sum is
\* greater than or equal to the sum of the sample before it, whatever strings
\* addValue was called with.
C1_SumNonDecreasing ==
    \A i \in 1..(Len(st.values) - 1) :
        F32Leq(st.values[i].sum, st.values[i + 1].sum)

-----------------------------------------------------------------------------
(* C2 *)

\* every call so far recorded a sample, and the values rise strictly
StrictlyIncreasing ==
    /\ Len(st.values) = call.n
    /\ \A i \in 1..(Len(st.values) - 1) :
           F32Less(st.values[i].value, st.values[i + 1].value)

\* C2: for strictly increasing non-zero readings added to an empty series, the
\* i-th sample's sum equals value[i] - value[0], and the first sum is 0.
C2_SumIsDifferenceFromFirst ==
    StrictlyIncreasing =>
        \A i \in 1..Len(st.values) :
            /\ F32Eq(st.values[i].sum, F32Sub(st.values[i].value, st.values[1].value))
            /\ i = 1 => F32Eq(st.values[i].sum, F32Zero)

-----------------------------------------------------------------------------
(* C3 *)

\* C3: a call whose string does not parse or parses to zero changes nothing,
\* and no sample of the series has the value zero.
C3_NoZeroValuedSample ==
    /\ [][(call'.n = call.n + 1 /\ (ParseFloat(call'.str).err
                                    \/ ~F64NonZero(ParseFloat(call'.str).f)))
            => st' = st]_vars
    /\ [](\A i \in 1..Len(st.values) : ~F32Eq(st.values[i].value, F32Zero))

-----------------------------------------------------------------------------
(* C9 *)

\* C9: an accepted value that is the first of the series, or is below the last
\* value, adds a delta of exactly zero (the new sample's sum is the total
\* before the call, 0 for the first sample) and becomes the last value; any
\* other accepted value adds newValue - last to the total.
C9_DeltaRule ==
    [][(call'.n = call.n + 1 /\ accepted(ParseFloat(call'.str))) =>
          LET val == ValueOf(call'.str)
              new == st'.values[Len(st'.values)]
          IN  /\ Len(st'.values) = Len(st.values) + 1
              /\ IF Len(st.values) = 0 \/ F32Less(val, st.last)
                 THEN /\ F32Eq(new.sum, st.total)
                      /\ Len(st.values) = 0 => F32Eq(new.sum, F32Zero)
                      /\ F32Eq(st'.last, val)
                 ELSE F32Eq(new.sum, F32Add(st.total, F32Sub(val, st.last)))
      ]_vars

-----------------------------------------------------------------------------
(* C4 *)

Tables == { "statistics", "statistics_short_term" }

\* the places in the output of the deletions for a key in a table
Deletions(k, tb) ==
    { i \in 1..Len(out) : out[i].op = "DELETE" /\ out[i].key = k /\ out[i].table = tb }

\* the places in the output of the insertions carrying a key
Insertions(k) == { i \in 1..Len(out) : out[i].op = "INSERT" /\ out[i].key = k }

\* the deletions for k are printed once per table (at most once while the
\* run is under way) and come before every insertion carrying k
DeletedOnceBeforeInserts(k) ==
    \A tb \in Tables :
        /\ Cardinality(Deletions(k, tb)) <= 1
        /\ pc = "done" => Cardinality(Deletions(k, tb)) = 1
        /\ \A i \in Insertions(k) : \E d \in Deletions(k, tb) : d < i
        /\ \A i \in Insertions(k) : \A d \in Deletions(k, tb) : d < i

\* C4 as stated: over a whole run, for every configured metadata key, the two
\* deletions for the key are printed exactly once and before every insertion
\* carrying the key.
C4_DeletedOncePerKey ==
    \A k \in { keys.imp, keys.exp, keys.gen } : DeletedOnceBeforeInserts(k)

KeysDistinct == keys.imp # keys.exp /\ keys.imp # keys.gen /\ keys.exp # keys.gen

\* C4 amended: when the three configured keys are pairwise distinct, the two
\* deletions for each key are printed exactly once and before every insertion
\* carrying the key.
C4_DeletedOncePerDistinctKey ==
    KeysDistinct =>
        \A k \in { keys.imp, keys.exp, keys.gen } : DeletedOnceBeforeInserts(k)

\* a finished run with distinct keys that printed insertions for two series
C4_Witness ==
    /\ pc = "done"
    /\ KeysDistinct
    /\ Insertions(keys.imp) # {}
    /\ Insertions(keys.gen) # {}

-----------------------------------------------------------------------------
(* C5 *)

\* the sample an insertion was printed for
SampleOf(x) == [t |-> x.created - 10, sum |-> x.sum, value |-> x.state]

\* the samples of the insertions into a table among the statements seg
Inserted(seg, tb) ==
    LET ins == SelectSeq(seg, LAMBDA x : x.op = "INSERT" /\ x.table = tb)
    IN  [i \in 1..Len(ins) |-> SampleOf(ins[i])]

-----------------------------------------------------------------------------
(* C6 *)

\* C6: when the walk of the base directory fails, nothing is printed and no
\* file is opened: the run ends at log.Fatalf (or in the callback's panic).
C6_WalkErrorEmitsNothing ==
    walkErr # "none" =>
        /\ out = <<>>
        /\ opened = <<>>
        /\ pc \in { "getFileNames", "fatal", "panic" }

\* getFileNames returned an error for a directory that holds files
C6_Witness == pc = "fatal" /\ walkErr = "err" /\ tree # {}

-----------------------------------------------------------------------------
(* C7 *)

\* a file that cannot be opened or parsed, has fewer than two records, or has
\* no "#date" or no "time" column
BadFile(f) ==
    \/ ~f.open
    \/ ~f.csv
    \/ Len(f.rows) < 2
    \/ ~\E i \in 1..Len(f.rows[1]) : f.rows[1][i] = "#date"
    \/ ~\E i \in 1..Len(f.rows[1]) : f.rows[1][i] = "time"

\* C7: a bad file leaves the three series as they were and the loop goes on;
\* a run whose walk succeeded opens every file, in sorted order, and calls
\* generateSQL for the three series.
C7_BadFileContributesNothing ==
    /\ [][(fi' = fi + 1 /\ BadFile(cur'.file)) =>
             /\ imp' = imp /\ exp' = exp /\ gen' = gen
             /\ pc' = IF fi' = Len(files) THEN "genImp" ELSE "readCSV"
         ]_vars
    /\ [](pc = "done" =>
             /\ { opened[i] : i \in 1..Len(opened) } = tree
             /\ \A i, j \in 1..Len(opened) : i < j => StrLess(opened[i], opened[j])
             /\ Len(clock) = 3
             /\ \A k \in { keys.imp, keys.exp, keys.gen } : \A tb \in Tables :
                    Deletions(k, tb) # {})

\* the second file was bad: the series still hold the first file's samples and
\* main goes on to generateSQL
C7_Witness ==
    /\ fi = 2
    /\ pc = "genImp"
    /\ BadFile(cur.file)
    /\ Len(imp.values) = 2

-----------------------------------------------------------------------------
(* C8 *)

TimeOrdered(s) ==
    \A i \in 1..(Len(s.values) - 1) : s.values[i].t <= s.values[i + 1].t

\* C8 as stated: whatever the files hold, the timestamps of each series are
\* non-decreasing.
C8_TimestampsNonDecreasing ==
    TimeOrdered(imp) /\ TimeOrdered(exp) /\ TimeOrdered(gen)

\* the rows read so far carry non-decreasing timestamps when the files are
\* taken in sorted filename order and each file's rows in file order
InputTimeOrdered ==
    /\ \A f \in 1..Len(seen) : \A i \in 1..(Len(seen[f].tms) - 1) :
           seen[f].tms[i] <= seen[f].tms[i + 1]
    /\ \A f, g \in 1..Len(seen) :
           StrLess(seen[f].path, seen[g].path) =>
               \A i \in 1..Len(seen[f].tms) : \A j \in 1..Len(seen[g].tms) :
                   seen[f].tms[i] <= seen[g].tms[j]

\* C8 amended: the timestamps of each series are non-decreasing provided the
\* rows' own timestamps are non-decreasing in sorted filename order and file
\* order; the program keeps that order and neither sorts nor checks the rows.
C8_TimestampsFollowInput ==
    InputTimeOrdered => TimeOrdered(imp) /\ TimeOrdered(exp) /\ TimeOrdered(gen)

\* two files read, both with rows, the import series rising across them
C8_Witness ==
    /\ Len(seen) = 2
    /\ seen[1].tms # <<>> /\ seen[2].tms # <<>>
    /\ InputTimeOrdered
    /\ Len(imp.values) = 2
    /\ imp.values[1].t < imp.values[2].t

-----------------------------------------------------------------------------
(* C10 *)

\* the records of r whose field count is that of the header
MatchingRows(r) == SelectSeq(r, LAMBDA d : Len(d) = Len(r[1]))

\* C10: in a file that is read (openable, well-formed, at least two records,
\* with its date and time columns) a record of another field count than the
\* header is skipped and the records around it are processed: the series end
\* as if the file held only the records of matching field count.
C10_MismatchedRowSkipped ==
    [][(fi' = fi + 1 /\ cur'.file.open /\ cur'.file.csv /\ ~BadFile(cur'.file)) =>
          LET acc == readRows(MatchingRows(cur'.file.rows), 2,
                              [imp |-> imp, exp |-> exp, gen |-> gen, tms |-> <<>>])
          IN  imp' = acc.imp /\ exp' = acc.exp /\ gen' = acc.gen
      ]_vars

=============================================================================
